---- MODULE Spec2Model ----
(***************************************************************************)
(* Gov Translation Tracker (src/app.py): one table, work_items, behind     *)
(* the Flask handlers index, add, edit, mark_submitted, delete and         *)
(* export_csv.  Text values are sequences of one-character strings, so     *)
(* that strip, strptime, the 05d format and ILIKE are computed and not     *)
(* assumed.  A DATE value is <<year, month, day>>, a TIMESTAMP is          *)
(* <<year, month, day, hour>>.                                             *)
(***************************************************************************)
EXTENDS Integers, Sequences, FiniteSets, TLC

\* Python None and SQL NULL (psycopg maps the one to the other).
NULL == <<"NULL">>

\* What a failed statement yields: the server raises, psycopg re-raises.
PgError == <<"ERROR">>

\* What a failed strptime yields.
ValueError == <<"ValueError">>

----------------------------------------------------------------------------
\* Bounds of the model.

\* Number of INSERTs a run may issue (each takes one value of the sequence).
MaxCreates == 2

----------------------------------------------------------------------------
\* Characters and text helpers.

Digits == <<"0", "1", "2", "3", "4", "5", "6", "7", "8", "9">>

IsDigit(c) == \E i \in 1..10 : Digits[i] = c

DigitVal(c) == (CHOOSE i \in 1..10 : Digits[i] = c) - 1

\* Case folding of one character, as ILIKE folds both operands.
LowerOf == [ A |-> "a", B |-> "b", C |-> "c", D |-> "d", E |-> "e", F |-> "f",
             G |-> "g", H |-> "h", I |-> "i", J |-> "j", K |-> "k", L |-> "l",
             M |-> "m", N |-> "n", O |-> "o", P |-> "p", Q |-> "q", R |-> "r",
             S |-> "s", T |-> "t", U |-> "u", V |-> "v", W |-> "w", X |-> "x",
             Y |-> "y", Z |-> "z" ]

LowerChar(c) == IF c \in DOMAIN LowerOf THEN LowerOf[c] ELSE c

LowerStr(s) == [i \in 1..Len(s) |-> LowerChar(s[i])]

Whitespace == {" "}

RECURSIVE LStrip(_)
LStrip(s) == IF s # <<>> /\ Head(s) \in Whitespace THEN LStrip(Tail(s)) ELSE s

RECURSIVE RStrip(_)
RStrip(s) == IF s # <<>> /\ s[Len(s)] \in Whitespace
             THEN RStrip(SubSeq(s, 1, Len(s) - 1))
             ELSE s

\* str.strip()
Strip(s) == RStrip(LStrip(s))

\* request.form.get(key, "").strip(): an absent key reads as "".
FormText(v) == IF v = NULL THEN <<>> ELSE Strip(v)

RECURSIVE DecStr(_)
DecStr(n) == IF n < 10 THEN <<Digits[n + 1]>>
             ELSE DecStr(n \div 10) \o <<Digits[(n % 10) + 1]>>

RECURSIVE ZeroPad(_, _)
ZeroPad(s, w) == IF Len(s) >= w THEN s ELSE ZeroPad(<<"0">> \o s, w)

\* A format that keeps five digits only.
FormatDocIdFiveOnly(new_id) ==
    <<"D", "O", "C", "-">> \o ZeroPad(DecStr(new_id % 100000), 5)

\* f"DOC-{new_id:05d}"
FormatDocId(new_id) == <<"D", "O", "C", "-">> \o ZeroPad(DecStr(new_id), 5)

----------------------------------------------------------------------------
\* Dates.

RECURSIVE Split(_, _)
Split(s, sep) ==
    IF \A i \in 1..Len(s) : s[i] # sep THEN <<s>>
    ELSE LET k == CHOOSE i \in 1..Len(s) :
                      s[i] = sep /\ \A j \in 1..(i - 1) : s[j] # sep
         IN  <<SubSeq(s, 1, k - 1)>> \o Split(SubSeq(s, k + 1, Len(s)), sep)

AllDigits(s) == s # <<>> /\ \A i \in 1..Len(s) : IsDigit(s[i])

RECURSIVE Num(_)
Num(s) == IF s = <<>> THEN 0
          ELSE 10 * Num(SubSeq(s, 1, Len(s) - 1)) + DigitVal(s[Len(s)])

IsLeap(y) == (y % 4 = 0 /\ y % 100 # 0) \/ y % 400 = 0

DaysIn(y, m) == IF m = 2 THEN (IF IsLeap(y) THEN 29 ELSE 28)
                ELSE IF m \in {4, 6, 9, 11} THEN 30 ELSE 31

\* One directive of a strptime format against one field of the input:
\* %Y is exactly four digits, %m and %d one or two.
FieldOk(dir, part) ==
    /\ AllDigits(part)
    /\ IF dir = "Y" THEN Len(part) = 4 /\ Num(part) >= 1
       ELSE IF dir = "m" THEN Len(part) <= 2 /\ Num(part) \in 1..12
       ELSE Len(part) <= 2 /\ Num(part) \in 1..31

\* The formats normalize_date tries, in its order.
DateFormats == << [sep |-> "-", dirs |-> <<"Y", "m", "d">>],
                  [sep |-> "/", dirs |-> <<"d", "m", "Y">>],
                  [sep |-> "-", dirs |-> <<"d", "m", "Y">>],
                  [sep |-> "/", dirs |-> <<"m", "d", "Y">>] >>

\* datetime.strptime(s, fmt): the date, or ValueError.
Strptime(s, fmt) ==
    LET parts == Split(s, fmt.sep)
        at(dir) == parts[CHOOSE i \in 1..3 : fmt.dirs[i] = dir]
    IN  IF Len(parts) # 3 THEN ValueError
        ELSE IF \E i \in 1..3 : ~FieldOk(fmt.dirs[i], parts[i]) THEN ValueError
        ELSE IF Num(at("d")) > DaysIn(Num(at("Y")), Num(at("m"))) THEN ValueError
        ELSE <<Num(at("Y")), Num(at("m")), Num(at("d"))>>

\* strftime("%Y-%m-%d"), and TO_CHAR(d, 'YYYY-MM-DD') of a non-null date.
Strftime(d) == ZeroPad(DecStr(d[1]), 4) \o <<"-">> \o ZeroPad(DecStr(d[2]), 2)
               \o <<"-">> \o ZeroPad(DecStr(d[3]), 2)

RECURSIVE TryFormats(_, _)
TryFormats(s, k) ==
    IF k > Len(DateFormats) THEN s
    ELSE LET d == Strptime(s, DateFormats[k])
         IN  IF d # ValueError THEN Strftime(d) ELSE TryFormats(s, k + 1)

normalize_date(s) == IF s = NULL \/ s = <<>> THEN NULL ELSE TryFormats(Strip(s), 1)

\* The server's cast of a text parameter to DATE: NULL stays NULL, an ISO
\* date is read, anything else is "invalid input syntax for type date".
PgDateIn(t) ==
    IF t = NULL THEN NULL
    ELSE LET d == Strptime(t, DateFormats[1])
         IN  IF d = ValueError THEN PgError ELSE d

TO_CHAR(d) == IF d = NULL THEN NULL ELSE Strftime(d)

----------------------------------------------------------------------------
\* ILIKE.

\* text LIKE pattern, with % for any run and _ for any one character (the
\* inputs hold no backslash, so the escape character is left out).
RECURSIVE LikeMatch(_, _)
LikeMatch(t, p) ==
    IF p = <<>> THEN t = <<>>
    ELSE IF Head(p) = "%"
         THEN LikeMatch(t, Tail(p)) \/ (t # <<>> /\ LikeMatch(Tail(t), p))
    ELSE IF t = <<>> THEN FALSE
    ELSE IF Head(p) = "_" THEN LikeMatch(Tail(t), Tail(p))
    ELSE Head(p) = Head(t) /\ LikeMatch(Tail(t), Tail(p))

\* col ILIKE %s: NULL ILIKE p is NULL, which WHERE treats as false.
ILIKE(t, p) == t # NULL /\ LikeMatch(LowerStr(t), LowerStr(p))

----------------------------------------------------------------------------
\* State.

VARIABLES
    rows,      \* the committed rows of work_items, what every statement sees
    seq,       \* last value handed out by work_items_id_seq (id SERIAL)
    txn,       \* the open transactions of the add requests under way
    last,      \* the handler step taken last and what it returned
    deleted    \* ids whose row a delete request has removed

vars == <<rows, seq, txn, last, deleted>>

\* Workers that may each be serving an add request; which worker serves
\* which request changes nothing, so txn holds the transactions only.
Procs == {"w1", "w2"}

\* States of the sequence a deployment may start a run in: a fresh
\* database, and one whose ids are about to outgrow five digits.
StartSeqs == {0, 99998}

Base(s) == CHOOSE b \in StartSeqs :
               b <= s /\ \A c \in StartSeqs : c <= s => c <= b

\* The item_id values of the URLs a client requests.
ItemIds == (Base(seq) + 1)..(Base(seq) + MaxCreates)

\* The server clock: NOW() and datetime.now().
Nows == {<<2025, 8, 30, 9>>}

T_Go == <<" ", "G", "o">>
T_Blank == <<" ">>
T_Translators == <<"A", "l", " ">>
T_Deputy == <<"B", "o">>
T_Iso == <<"2", "0", "2", "5", "-", "0", "8", "-", "3", "0">>
T_MdySlash == <<"0", "8", "/", "3", "1", "/", "2", "0", "2", "5">>
T_DocId == <<"D", "O", "C", "-", "0", "0", "0", "0", "9">>

\* request.form of a POST to /add or /edit; NULL is an absent key.  Every
\* form also carries a doc_id key, which no handler reads.
Forms == [ go_number       : {T_Blank, T_Go},
           translators     : {T_Translators},
           deputy_director : {T_Deputy},
           typist          : {NULL},
           arrival_date    : {NULL, T_Blank, T_Iso},
           submission_date : {NULL, T_Blank, T_MdySlash},
           doc_id          : {T_DocId} ]

\* The locals of add and edit once the form is read: the four text
\* fields stripped, the two dates through normalize_date.
ReadForm(form) ==
    [ go_number       |-> FormText(form.go_number),
      translators     |-> FormText(form.translators),
      deputy_director |-> FormText(form.deputy_director),
      typist          |-> FormText(form.typist),
      arrival_date    |-> normalize_date(form.arrival_date),
      submission_date |-> normalize_date(form.submission_date) ]

\* A POST as a handler meets it: the form, the locals read from it, and
\* the two date parameters as the server binds them to the DATE columns.
ReadPost(form) ==
    LET posted == ReadForm(form)
    IN  [ form   |-> form,
          posted |-> posted,
          bound  |-> [ arrival_date    |-> PgDateIn(posted.arrival_date),
                       submission_date |-> PgDateIn(posted.submission_date) ] ]

Posts == {ReadPost(form) : form \in Forms}

\* request.args of a GET to /.
Queries == {<<>>, <<" ", "g", "O">>, <<"_">>}
Statuses == {"all", "inprogress", "submitted"}

Resp(op, result, id) ==
    [ op |-> op, result |-> result, id |-> id, q |-> <<>>, status |-> "",
      today |-> NULL, rows |-> <<>> ]

Init ==
    /\ rows = {}
    /\ seq \in StartSeqs
    /\ txn = {}
    /\ last = Resp("none", "", 0)
    /\ deleted = {}

InFlight == {t.row : t \in txn}

----------------------------------------------------------------------------
\* The store.

\* An id taken as one more than the largest committed id, as a table
\* without a sequence hands them out.
NextValMaxPlusOne(s, committed) ==
    IF committed = {} THEN Base(s) + 1
    ELSE (CHOOSE r \in committed : \A o \in committed : o.id <= r.id).id + 1

\* id SERIAL: nextval('work_items_id_seq'), which no rollback takes back.
NextVal(s, committed) == s + 1

\* PRIMARY KEY (id) and UNIQUE (doc_id), against the rows another
\* transaction has written (arrival_date DATE NOT NULL is checked where
\* the statements are).
PkTaken(id) == \E r \in rows \cup InFlight : r.id = id

DocIdTaken(id, doc_id) ==
    \E r \in rows \cup InFlight : r.id # id /\ r.doc_id = doc_id

\* A check of go_number alone.
RefusedGoNumberOnly(go_number, arrival_date) == go_number = <<>>

\* "if not go_number or not arrival_date": the form is refused.
Refused(go_number, arrival_date) ==
    go_number = <<>> \/ arrival_date = NULL \/ arrival_date = <<>>

\* An UPDATE that lost its WHERE clause.
UpdateEveryRow(item_id, change) == {change[r] : r \in rows}

\* UPDATE work_items SET ... WHERE id = item_id, over the committed rows;
\* change maps a row to the row the SET clause makes of it.
UpdateWhereId(item_id, change) ==
    {IF r.id = item_id THEN change[r] ELSE r : r \in rows}

----------------------------------------------------------------------------
\* add.

AddGet ==
    /\ last' = Resp("add", "form", 0)
    /\ UNCHANGED <<rows, seq, txn, deleted>>

\* POST /add up to and including the INSERT ... RETURNING id.  The
\* connection is not in autocommit mode, so the INSERT opens a transaction
\* that lasts until db.commit().
AddPost(post, now) ==
    /\ Cardinality(txn) < Cardinality(Procs)
    /\ LET go_number == post.posted.go_number
           translators == post.posted.translators
           deputy_director == post.posted.deputy_director
           typist == post.posted.typist
           arrival_date == post.posted.arrival_date
           submission_date == post.posted.submission_date
           new_id == NextVal(seq, rows)
       IN  IF Refused(go_number, arrival_date)
           THEN /\ last' = Resp("add", "validation_error", 0)
                /\ UNCHANGED <<rows, seq, txn, deleted>>
           ELSE IF post.bound.arrival_date = PgError
                   \/ post.bound.submission_date = PgError
           THEN /\ last' = Resp("add", "store_error", 0)
                /\ UNCHANGED <<rows, seq, txn, deleted>>
           ELSE /\ seq < Base(seq) + MaxCreates
                /\ seq' = new_id
                /\ IF PkTaken(new_id) \/ post.bound.arrival_date = NULL
                   THEN /\ last' = Resp("add", "store_error", 0)
                        /\ UNCHANGED txn
                   ELSE /\ txn' = txn \cup
                            {[ pc |-> "inserted",
                               row |-> [ id |-> new_id,
                                         doc_id |-> NULL,
                                         go_number |-> go_number,
                                         translators |-> translators,
                                         deputy_director |-> deputy_director,
                                         typist |-> typist,
                                         arrival_date |-> post.bound.arrival_date,
                                         submission_date |-> post.bound.submission_date,
                                         created_at |-> now ] ]}
                        /\ last' = Resp("add", "inserted", 0)
                /\ UNCHANGED <<rows, deleted>>

\* UPDATE work_items SET doc_id=%s WHERE id=%s, inside the same transaction.
AddSetDocId(t) ==
    /\ t.pc = "inserted"
    /\ LET new_id == t.row.id
           doc_id == FormatDocId(new_id)
       IN  IF DocIdTaken(new_id, doc_id)
           THEN /\ txn' = txn \ {t}
                /\ last' = Resp("add", "store_error", 0)
           ELSE /\ txn' = (txn \ {t}) \cup
                          {[pc |-> "updated", row |-> [t.row EXCEPT !.doc_id = doc_id]]}
                /\ last' = Resp("add", "doc_id_set", 0)
    /\ UNCHANGED <<rows, seq, deleted>>

\* db.commit() and the redirect to the list.
AddCommit(t) ==
    /\ t.pc = "updated"
    /\ rows' = rows \cup {t.row}
    /\ txn' = txn \ {t}
    /\ last' = Resp("add", "redirect", t.row.id)
    /\ UNCHANGED <<seq, deleted>>

\* The same on a connection in autocommit mode, where every statement is
\* its own transaction.
AddAbortAutocommit(t) ==
    /\ rows' = rows \cup {t.row}
    /\ txn' = txn \ {t}
    /\ last' = [Resp("add", "aborted", t.row.id) EXCEPT !.status = t.pc]
    /\ UNCHANGED <<seq, deleted>>

\* The request dies before db.commit() (the worker is killed, or an
\* exception reaches close_db): the connection closes and the server rolls
\* the open transaction back.
AddAbort(t) ==
    /\ txn' = txn \ {t}
    /\ last' = [Resp("add", "aborted", t.row.id) EXCEPT !.status = t.pc]
    /\ UNCHANGED <<rows, seq, deleted>>

----------------------------------------------------------------------------
\* edit, mark_submitted, delete.

EditGet(item_id) ==
    /\ last' = Resp("edit", IF \E r \in rows : r.id = item_id
                            THEN "form" ELSE "not_found", item_id)
    /\ UNCHANGED <<rows, seq, txn, deleted>>

EditPost(item_id, post) ==
    LET go_number == post.posted.go_number
        translators == post.posted.translators
        deputy_director == post.posted.deputy_director
        typist == post.posted.typist
        arrival_date == post.posted.arrival_date
        submission_date == post.posted.submission_date
        change == [r \in rows |->
                      [r EXCEPT !.go_number = go_number,
                                !.translators = translators,
                                !.deputy_director = deputy_director,
                                !.typist = typist,
                                !.arrival_date = post.bound.arrival_date,
                                !.submission_date = post.bound.submission_date]]
    IN  /\ IF ~\E r \in rows : r.id = item_id
           THEN /\ last' = Resp("edit", "not_found", item_id)
                /\ UNCHANGED rows
           ELSE IF \/ post.bound.arrival_date = PgError
                   \/ post.bound.submission_date = PgError
                   \/ arrival_date = NULL      \* arrival_date DATE NOT NULL
           THEN /\ last' = Resp("edit", "store_error", item_id)
                /\ UNCHANGED rows
           ELSE /\ rows' = UpdateWhereId(item_id, change)
                /\ last' = Resp("edit", "redirect", item_id)
        /\ UNCHANGED <<seq, txn, deleted>>

\* A mark_submitted that leaves a row alone once it has a submission date.
MarkSubmittedIfUnset(item_id, now) ==
    LET today == Strftime(<<now[1], now[2], now[3]>>)
        change == [r \in rows |->
                      IF r.submission_date = NULL
                      THEN [r EXCEPT !.submission_date = PgDateIn(today)]
                      ELSE r]
    IN  /\ rows' = UpdateWhereId(item_id, change)
        /\ last' = [Resp("mark_submitted", "redirect", item_id)
                       EXCEPT !.today = today]
        /\ UNCHANGED <<seq, txn, deleted>>

MarkSubmitted(item_id, now) ==
    LET today == Strftime(<<now[1], now[2], now[3]>>)
        change == [r \in rows |-> [r EXCEPT !.submission_date = PgDateIn(today)]]
    IN  /\ rows' = UpdateWhereId(item_id, change)
        /\ last' = [Resp("mark_submitted", "redirect", item_id)
                       EXCEPT !.today = today]
        /\ UNCHANGED <<seq, txn, deleted>>

Delete(item_id) ==
    /\ rows' = {r \in rows : r.id # item_id}
    /\ deleted' = deleted \cup {r.id : r \in {x \in rows : x.id = item_id}}
    /\ last' = Resp("delete", "redirect", item_id)
    /\ UNCHANGED <<seq, txn>>

----------------------------------------------------------------------------
\* index, export_csv.

RECURSIVE OrderById(_, _)
OrderById(S, desc) ==
    IF S = {} THEN <<>>
    ELSE LET r == CHOOSE x \in S :
                      \A y \in S : IF desc THEN y.id <= x.id ELSE x.id <= y.id
         IN  <<r>> \o OrderById(S \ {r}, desc)

\* The search condition of index: the five columns against %q%.
SearchCond(r, q) ==
    LET like == <<"%">> \o q \o <<"%">>
    IN  \/ ILIKE(r.doc_id, like)
        \/ ILIKE(r.go_number, like)
        \/ ILIKE(r.translators, like)
        \/ ILIKE(r.deputy_director, like)
        \/ ILIKE(r.typist, like)

StatusCond(r, status) ==
    IF status = "inprogress" THEN r.submission_date = NULL
    ELSE IF status = "submitted" THEN r.submission_date # NULL
    ELSE TRUE

\* A status column read off the wrong date.
IndexRowStatusOfArrival(r) ==
    [ id |-> r.id, doc_id |-> r.doc_id, go_number |-> r.go_number,
      translators |-> r.translators, deputy_director |-> r.deputy_director,
      typist |-> r.typist,
      arrival_date |-> TO_CHAR(r.arrival_date),
      submission_date |-> TO_CHAR(r.submission_date),
      status |-> IF r.arrival_date = NULL THEN "In Progress" ELSE "Submitted" ]

IndexRow(r) ==
    [ id |-> r.id, doc_id |-> r.doc_id, go_number |-> r.go_number,
      translators |-> r.translators, deputy_director |-> r.deputy_director,
      typist |-> r.typist,
      arrival_date |-> TO_CHAR(r.arrival_date),
      submission_date |-> TO_CHAR(r.submission_date),
      status |-> IF r.submission_date = NULL THEN "In Progress" ELSE "Submitted" ]

Select(q, status) ==
    LET hits == {r \in rows : (q # <<>> => SearchCond(r, q)) /\ StatusCond(r, status)}
        sorted == OrderById(hits, TRUE)
    IN  [i \in 1..Len(sorted) |-> IndexRow(sorted[i])]

Index(qarg, status) ==
    /\ last' = [Resp("index", "page", 0) EXCEPT !.q = qarg, !.status = status,
                                                 !.rows = Select(Strip(qarg), status)]
    /\ UNCHANGED <<rows, seq, txn, deleted>>

ExportRow(r) ==
    [ doc_id |-> r.doc_id, go_number |-> r.go_number,
      translators |-> r.translators, deputy_director |-> r.deputy_director,
      typist |-> r.typist,
      arrival_date |-> TO_CHAR(r.arrival_date),
      submission_date |-> IF r.submission_date = NULL THEN <<>>
                          ELSE TO_CHAR(r.submission_date) ]

ExportCsv ==
    /\ last' = [Resp("export_csv", "file", 0) EXCEPT !.rows =
                   LET sorted == OrderById(rows, FALSE)
                   IN  [i \in 1..Len(sorted) |-> ExportRow(sorted[i])]]
    /\ UNCHANGED <<rows, seq, txn, deleted>>

----------------------------------------------------------------------------

Next ==
    \/ AddGet
    \/ \E post \in Posts, now \in Nows : AddPost(post, now)
    \/ \E t \in txn : AddSetDocId(t)
    \/ \E t \in txn : AddCommit(t)
    \/ \E t \in txn : AddAbort(t)
    \/ \E item_id \in ItemIds : EditGet(item_id)
    \/ \E item_id \in ItemIds, post \in Posts : EditPost(item_id, post)
    \/ \E item_id \in ItemIds, now \in Nows : MarkSubmitted(item_id, now)
    \/ \E item_id \in ItemIds : Delete(item_id)
    \/ \E qarg \in Queries, status \in Statuses : Index(qarg, status)
    \/ ExportCsv

Spec == Init /\ [][Next]_vars

----------------------------------------------------------------------------
\* Properties.

IdsOf(S) == {r.id : r \in S}

\* v is absent, empty or made of spaces only.
Blank(v) == v = NULL \/ \A i \in 1..Len(v) : v[i] = " "

\* q occurs in t as a run of consecutive characters.
Contains(t, q) ==
    \E k \in 0..(Len(t) - Len(q)) : SubSeq(t, k + 1, k + Len(q)) = q

\* The dates the server clock may show.
CurrentDates == {<<now[1], now[2], now[3]>> : now \in Nows}

ListedIds == {last.rows[i].id : i \in 1..Len(last.rows)}

\* C1: every record visible in the store has as docId the text "DOC-"
\* followed by the decimal digits of its own id, padded with zeros to five
\* digits and never cut when the id needs more; the doc_id key a form
\* carries plays no part.
C1_DocIdIsPaddedId ==
    \A r \in rows :
        /\ r.doc_id # NULL
        /\ Len(r.doc_id) >= 9
        /\ SubSeq(r.doc_id, 1, 4) = <<"D", "O", "C", "-">>
        /\ LET tail == SubSeq(r.doc_id, 5, Len(r.doc_id))
           IN  /\ AllDigits(tail)
               /\ Num(tail) = r.id
               /\ Len(tail) > 5 => tail[1] # "0"

C1_FirstRecordCreated ==
    /\ last.op = "add" /\ last.result = "redirect" /\ last.id = 1
    /\ \E r \in rows : r.id = 1 /\ r.doc_id = <<"D", "O", "C", "-", "0", "0", "0", "0", "1">>

\* C2: a create whose goNumber is blank, or whose arrivalDate is absent,
\* empty or blank, answers with the validation error and changes neither
\* the rows, nor the sequence, nor any open transaction.
C2_RefusedCreateChangesNothing ==
    [][ last'.op = "add" =>
          \A post \in Posts, now \in Nows :
              ( /\ Blank(post.form.go_number) \/ Blank(post.form.arrival_date)
                /\ AddPost(post, now) )
              => /\ last'.result = "validation_error"
                 /\ rows' = rows
                 /\ seq' = seq
                 /\ txn' = txn ]_vars

C2_RefusedWithRecordsPresent ==
    last.op = "add" /\ last.result = "validation_error" /\ rows # {}

\* C3: every existing record has a non-empty goNumber and an arrivalDate,
\* update refusing what create refuses.
C3_RecordsKeepRequiredFields ==
    \A r \in rows : r.go_number # <<>> /\ r.arrival_date # NULL

\* C4: an update or a markSubmitted of id keeps the id, docId and
\* createdAt of that record, keeps every other record as it is, adds and
\* removes none, and changes nothing at all when no record has that id.
C4_UpdateFrame ==
    [][ last'.op \in {"edit", "mark_submitted"} =>
          /\ IdsOf(rows') = IdsOf(rows)
          /\ Cardinality(rows') = Cardinality(rows)
          /\ \A r \in rows :
                IF r.id = last'.id
                THEN \E n \in rows' : /\ n.id = r.id
                                      /\ n.doc_id = r.doc_id
                                      /\ n.created_at = r.created_at
                ELSE r \in rows'
          /\ last'.id \notin IdsOf(rows) => rows' = rows
          /\ seq' = seq /\ txn' = txn /\ deleted' = deleted ]_vars

C4_UpdatedOneOfTwo ==
    last.op = "edit" /\ last.result = "redirect" /\ Cardinality(rows) >= 2

\* C5: a list returns exactly the records that hold the (trimmed) query as
\* a literal substring, case ignored, in one of docId, goNumber,
\* translators, deputyDirector, typist, and that meet the status filter,
\* by strictly descending id.
C5_ListIsLiteralSubstringFilter ==
    last.op = "index" =>
        LET q == Strip(last.q)
            hit(r) == \E f \in {r.doc_id, r.go_number, r.translators,
                                r.deputy_director, r.typist} :
                          f # NULL /\ Contains(LowerStr(f), LowerStr(q))
            wanted == {r \in rows :
                          /\ q = <<>> \/ hit(r)
                          /\ last.status = "inprogress" => r.submission_date = NULL
                          /\ last.status = "submitted" => r.submission_date # NULL}
        IN  /\ ListedIds = IdsOf(wanted)
            /\ Len(last.rows) = Cardinality(wanted)
            /\ \A i, j \in 1..Len(last.rows) :
                   i < j => last.rows[i].id > last.rows[j].id

\* C6: markSubmitted of an existing record leaves it with the current date
\* as submissionDate whatever it held before; a submitted record stays
\* submitted until it is deleted or updated; and a list of the submitted
\* records with no query holds every submitted record.
C6_MarkSubmittedSticks ==
    [][ /\ last'.op = "mark_submitted" =>
              \A r \in rows : r.id = last'.id =>
                  \E n \in rows' : n.id = r.id /\ n.submission_date \in CurrentDates
        /\ \A r \in rows : r.submission_date # NULL =>
              \/ last'.op \in {"edit", "delete"} /\ last'.id = r.id
              \/ \E n \in rows' : n.id = r.id /\ n.submission_date # NULL
        /\ ( last'.op = "index" /\ Strip(last'.q) = <<>> /\ last'.status = "submitted" )
              => \A r \in rows' : r.submission_date # NULL => r.id \in ListedIds' ]_vars

C6_MarkedRecordListed ==
    /\ last.op = "index" /\ last.q = <<>> /\ last.status = "submitted"
    /\ \E r \in rows : r.submission_date \in CurrentDates /\ r.id \in ListedIds

\* C7: a delete removes the record of that id and nothing else (nothing at
\* all when there is none), and the id of a deleted record never shows
\* again: not in the store, not in a list, not in an export, whatever is
\* created afterwards.
C7_DeletedStaysGone ==
    [][ /\ last'.op = "delete" =>
              /\ rows' = {r \in rows : r.id # last'.id}
              /\ seq' = seq /\ txn' = txn
        /\ \A id \in deleted' :
              /\ id \notin IdsOf(rows')
              /\ last'.op = "index" => id \notin ListedIds'
              /\ last'.op = "export_csv" =>
                    \A i \in 1..Len(last'.rows) :
                        last'.rows[i].doc_id # FormatDocId(id) ]_vars

C7_ListedAfterDeleteAndCreate ==
    /\ last.op = "index" /\ last.q = <<>> /\ last.status = "all"
    /\ \E id \in deleted : \E r \in rows : r.id > id /\ r.id \in ListedIds

\* C8: with creates under way at the same time as updates and deletes, no
\* two rows (committed or not) share an id, no two records share a docId,
\* and every newly inserted row has an id above every id a record has or
\* ever had.
C8_IdsUniqueAndIncreasing ==
    [][ /\ \A a, b \in rows' \cup InFlight' : a.id = b.id => a = b
        /\ \A a, b \in rows' : a.doc_id = b.doc_id => a = b
        /\ \A n \in InFlight' : n.id \notin IdsOf(InFlight) =>
              \A o \in IdsOf(rows \cup InFlight) \cup deleted : o < n.id ]_vars

C8_TwoCreatesAboutToCommit ==
    Cardinality(txn) = 2 /\ \A t \in txn : t.pc = "updated"

\* C9, as claimed: a create interrupted after its INSERT and before its
\* docId is set leaves a row with a null docId in the store.
C9_InterruptedCreateLeavesRow ==
    [][ ( last'.op = "add" /\ last'.result = "aborted" /\ last'.status = "inserted" )
          => \E r \in rows' : r.id = last'.id /\ r.doc_id = NULL ]_vars

\* C9, amended: an interrupted create leaves no row at all, its INSERT
\* being rolled back while the id it took stays taken; no row with a null
\* docId is ever in the store, in a list or in an export.
C9_InterruptedCreateLeavesNothing ==
    [][ /\ ( last'.op = "add" /\ last'.result = "aborted" ) =>
              /\ rows' = rows
              /\ seq' = seq
              /\ last'.id \notin IdsOf(rows')
              /\ last'.id <= seq'
        /\ \A r \in rows' : r.doc_id # NULL
        /\ last'.op \in {"index", "export_csv"} =>
              \A i \in 1..Len(last'.rows) : last'.rows[i].doc_id # NULL ]_vars

C9_InterruptedAfterInsert ==
    /\ last.op = "add" /\ last.result = "aborted" /\ last.status = "inserted"
    /\ rows # {}

\* The status column of a list is the one derived from submissionDate.
C10_Derived ==
    last'.op = "index" =>
        \A i \in 1..Len(last'.rows) :
            \E r \in rows' :
                /\ r.id = last'.rows[i].id
                /\ last'.rows[i].status =
                       IF r.submission_date = NULL THEN "In Progress" ELSE "Submitted"

\* A record gets a submissionDate only through markSubmitted or an update
\* of it, loses it only through an update of it, and an update leaves it
\* with one exactly when the form supplies one.
C10_Transitions ==
    /\ \A r \in rows : \A n \in rows' : n.id = r.id =>
          /\ ( r.submission_date = NULL /\ n.submission_date # NULL )
                => last'.op \in {"mark_submitted", "edit"} /\ last'.id = r.id
          /\ ( r.submission_date # NULL /\ n.submission_date = NULL )
                => last'.op = "edit" /\ last'.id = r.id
    /\ ( last'.op = "edit" /\ last'.result = "redirect" ) =>
          \A post \in Posts : EditPost(last'.id, post) =>
              \A n \in rows' : n.id = last'.id =>
                  ( n.submission_date = NULL <=> Blank(post.form.submission_date) )
    /\ \A t \in txn : \A n \in InFlight' \cup rows' : n.id = t.row.id =>
          ( n.submission_date = NULL <=> t.row.submission_date = NULL )

\* C10, as claimed: status follows submissionDate through the transitions
\* above, and every record is InProgress when created.
C10_CreatedInProgress ==
    [][ /\ C10_Derived
        /\ C10_Transitions
        /\ \A n \in InFlight' : n.id \notin IdsOf(InFlight) =>
              n.submission_date = NULL ]_vars

\* C10, amended: the same, but a record is created InProgress exactly when
\* the create form supplies no submissionDate, and Submitted otherwise.
C10_CreatedAsPosted ==
    [][ /\ C10_Derived
        /\ C10_Transitions
        /\ last'.op = "add" =>
              \A post \in Posts, now \in Nows : AddPost(post, now) =>
                  \A n \in InFlight' : n.id \notin IdsOf(InFlight) =>
                      ( n.submission_date = NULL <=>
                            Blank(post.form.submission_date) ) ]_vars

C10_CreatedSubmitted ==
    /\ last.op = "add" /\ last.result = "redirect"
    /\ \E r \in rows : r.id = last.id /\ r.submission_date # NULL

====
